---------------------------- MODULE Spec2Model ----------------------------
(***************************************************************************)
(* A model of grype's v5 vulnerability store (grype/db/v5/store/store.go): *)
(* the Identity table with SetID/GetID, the VulnerabilityMetadata table    *)
(* with GetVulnerabilityMetadata/AddVulnerabilityMetadata and its merge    *)
(* policy, the Vulnerability table with AddVulnerability,                  *)
(* SearchForVulnerabilities and GetVulnerabilityNamespaces, Close, and     *)
(* DiffStore with its progress reporting.                                  *)
(*                                                                         *)
(* A table is the sequence of its rows in insertion order.  The store is   *)
(* used by one writer at a time: a call runs to its return before the next *)
(* one starts.  ID and Namespace are required, non-empty strings.  URLs    *)
(* are modelled by their rank in lexicographic order (1 < 2 < ...).        *)
(***************************************************************************)
EXTENDS Naturals, Sequences, FiniteSets

VARIABLES
    metaTable,   \* rows of the VulnerabilityMetadata table
    pc,          \* position of the AddVulnerabilityMetadata caller
    batch,       \* the records passed to the current call
    idx,         \* index of the next record of the batch
    pre,         \* metaTable when the current call started
    before,      \* metaTable when the last record of the call was reached
    cur,         \* the record processed last in the current call
    outcome,     \* which branch the last record took
    err          \* the error the call returned ("none": nil)

metaVars == <<metaTable, pc, batch, idx, pre, before, cur, outcome, err>>

VARIABLES
    idTable,     \* rows of the Identity table
    idLast,      \* the value passed to the last SetID call
    idSetErr,    \* what the last SetID call returned
    idSets,      \* number of SetID calls made
    idGot,       \* what the last GetID call returned
    idGotAt      \* idSets when GetID was called last

idVars == <<idTable, idLast, idSetErr, idSets, idGot, idGotAt>>

VARIABLES
    baseStore,        \* the receiver of DiffStore: [vulns, metadata]
    targetStore,      \* the store passed to DiffStore: [vulns, metadata]
    dpc,              \* position of DiffStore
    stager,           \* the stage names assigned to stager.Current so far
    rowsProgress,     \* progress counter of the reads: [current, completed]
    diffItems,        \* progress counter of the diff entries: [current, completed]
    trace,            \* the reads and comparisons performed so far
    targetVulns,      \* locals of DiffStore
    baseVulns,
    baseVulnPkgMap,
    targetVulnPkgMap,
    allDiffsMap,
    baseMetadata,
    targetMetadata,
    metaDiffsMap,
    allDiffs,         \* the changeset returned (NoResult: nil)
    diffErr           \* the error returned ("none": nil)

diffVars == <<baseStore, targetStore, dpc, stager, rowsProgress, diffItems, trace,
              targetVulns, baseVulns, baseVulnPkgMap, targetVulnPkgMap, allDiffsMap,
              baseMetadata, targetMetadata, metaDiffsMap, allDiffs, diffErr>>

VARIABLES
    vulnTable,   \* rows of the Vulnerability table
    vulnAdded,   \* the records whose insert went through, in the order of the inserts
    vulnErr,     \* what the last AddVulnerability call returned ("none": nil)
    searched,    \* the arguments of the last SearchForVulnerabilities call
    found,       \* what that call returned
    names        \* what the last GetVulnerabilityNamespaces call returned

vulnVars == <<vulnTable, vulnAdded, vulnErr, searched, found, names>>

VARIABLES
    cpc,         \* position of Close
    stmtIdx,     \* index of the next statement of memoryEfficientStatements
    closeLog,    \* the statements and calls Close has issued, with their outcome
    connOpen,    \* the underlying connection is open
    closeRet     \* what Close returned ("none": nil; "pending": not returned)

closeVars == <<cpc, stmtIdx, closeLog, connOpen, closeRet>>

vars == <<metaVars, idVars, diffVars, vulnVars, closeVars>>

--------------------------------------------------------------------------
(* Bounds and input sets *)

MaxBatch == 2
MaxSetCalls == 3

NoRecord == [none |-> TRUE]

CvssA == [Version |-> "3.1", Vector |-> "AV:N"]
CvssB == [Version |-> "3.1", Vector |-> "AV:L"]

\* (Cvss, URLs) of incoming records: an empty one, a clean one, and one
\* whose Cvss repeats an entry and whose URLs are out of order
Payloads ==
    {<<(<<>>), (<<>>)>>,
     <<(<<CvssA>>), (<<2>>)>>,
     <<(<<CvssB, CvssA, CvssB>>), (<<2, 1>>)>>}

MetaRecord(id, ns, sev, desc, p) ==
    [ID |-> id, Namespace |-> ns, Severity |-> sev, Description |-> desc,
     Cvss |-> p[1], URLs |-> p[2]]

\* the records a caller passes: every payload under key (X, n) with a base
\* (Severity, Description), one differing in Severity and one differing in
\* Description, and one record under a second key (Y, n)
Records ==
    {MetaRecord("X", "n", c[1], c[2], p) :
        c \in {<<"Low", "d1">>, <<"High", "d1">>, <<"Low", "d2">>}, p \in Payloads}
    \cup {MetaRecord("Y", "n", "Low", "d1", <<(<<CvssA>>), (<<2>>)>>)}

Keys == {<<r.ID, r.Namespace>> : r \in Records}

RECURSIVE SeqsUpTo(_, _)
SeqsUpTo(S, n) ==
    IF n = 0 THEN {<<>>}
    ELSE LET shorter == SeqsUpTo(S, n - 1)
         IN shorter \cup {Append(s, x) : s \in {t \in shorter : Len(t) = n - 1}, x \in S}

Batches == SeqsUpTo(Records, MaxBatch)

\* outcomes of a storage statement: it works, or it fails
NoFaults == {"none"}
Faults == {"none", "find", "write"}
StatementFaults == {"none", "failed"}

--------------------------------------------------------------------------
(* Helpers *)

Range(s) == {s[i] : i \in 1..Len(s)}

NoDuplicates(s) == \A i, j \in 1..Len(s) : s[i] = s[j] => i = j

Key(m) == <<m.ID, m.Namespace>>

\* deep.Equal(a, b) reports no difference
DeepEqual(a, b) == a = b

\* s.db.Where(&VulnerabilityMetadataModel{ID: id, Namespace: namespace}).Find(&models)
FindMetadata(tbl, id, namespace) ==
    SelectSeq(tbl, LAMBDA r : r.ID = id /\ r.Namespace = namespace)

\* model.NewVulnerabilityMetadataModel(m): the row holding m's fields
NewVulnerabilityMetadataModel(m) == m

\* row.Inflate(): the record a row holds
Inflate(row) == row

\* a lookup that never finds the stored row
GetVulnerabilityMetadata_Miss(tbl, id, namespace, fault) ==
    IF fault = "find" THEN [val |-> NoRecord, err |-> "db"]
    ELSE [val |-> NoRecord, err |-> "none"]

\* GetVulnerabilityMetadata(id, namespace) -> (record, error)
GetVulnerabilityMetadata(tbl, id, namespace, fault) ==
    LET models == FindMetadata(tbl, id, namespace)
    IN  IF fault = "find" THEN [val |-> NoRecord, err |-> "db"]
        ELSE IF Len(models) > 1 THEN [val |-> NoRecord, err |-> "multiple"]
        ELSE IF Len(models) = 1 THEN [val |-> Inflate(models[1]), err |-> "none"]
        ELSE [val |-> NoRecord, err |-> "none"]

--------------------------------------------------------------------------
(* The merge policy *)

CvssContains(list, c) == \E i \in 1..Len(list) : DeepEqual(c, list[i])

\* a merge that compares the incoming entries with the stored list only
MergeCvss_AgainstStored(existing, incoming) ==
    existing \o SelectSeq(incoming, LAMBDA c : ~CvssContains(existing, c))

\* a merge that appends every incoming entry
MergeCvss_AppendAll(existing, incoming) == existing \o incoming

\* the incoming loop: an incoming entry is appended unless an entry
\* structurally equal to it is in the list already
RECURSIVE MergeCvss(_, _)
MergeCvss(existing, incoming) ==
    IF incoming = <<>> THEN existing
    ELSE IF CvssContains(existing, Head(incoming))
         THEN MergeCvss(existing, Tail(incoming))
         ELSE MergeCvss(Append(existing, Head(incoming)), Tail(incoming))

\* stringutil.NewStringSetFromSlice(existing.URLs), then Add of each incoming
StringSet(existing, incoming) == Range(existing) \cup Range(incoming)

\* StringSet.ToSlice(): the members, in no specified order
RECURSIVE ToSlice(_)
ToSlice(S) ==
    IF S = {} THEN <<>>
    ELSE LET x == CHOOSE y \in S : \A z \in S : z <= y
         IN <<x>> \o ToSlice(S \ {x})

RECURSIVE InsertSorted(_, _)
InsertSorted(s, x) ==
    IF s = <<>> THEN <<x>>
    ELSE IF x <= Head(s) THEN <<x>> \o s
    ELSE <<Head(s)>> \o InsertSorted(Tail(s), x)

\* sort.Strings
RECURSIVE SortStrings(_)
SortStrings(s) ==
    IF s = <<>> THEN <<>> ELSE InsertSorted(SortStrings(Tail(s)), Head(s))

\* a merge that concatenates the two lists before sorting
MergeURLs_Concat(existing, incoming) == SortStrings(existing \o incoming)

MergeURLs(existing, incoming) == SortStrings(ToSlice(StringSet(existing, incoming)))

\* a merge that puts the incoming entries in front of the stored ones
MergedRecord_IncomingFirst(existing, m) ==
    [existing EXCEPT !.Cvss = MergeCvss(m.Cvss, existing.Cvss),
                     !.URLs = MergeURLs(existing.URLs, m.URLs)]

\* the record written back by the merge branch
MergedRecord(existing, m) ==
    [existing EXCEPT !.Cvss = MergeCvss(existing.Cvss, m.Cvss),
                     !.URLs = MergeURLs(existing.URLs, m.URLs)]

\* s.db.Create(&row): one more row
Create(tbl, row) == Append(tbl, row)

\* s.db.Save(&row): the rows with the row's primary key are replaced; a row
\* is inserted when there is none
Save(tbl, row) ==
    IF FindMetadata(tbl, row.ID, row.Namespace) = <<>> THEN Append(tbl, row)
    ELSE [i \in 1..Len(tbl) |->
            IF Key(tbl[i]) = Key(row) THEN row ELSE tbl[i]]

\* a switch without the Description case
ConflictError_SeverityOnly(existing, m) ==
    IF existing.Severity # m.Severity THEN "severity" ELSE "none"

\* the switch on the core fields: the error it returns with, if any
ConflictError(existing, m) ==
    IF existing.Severity # m.Severity THEN "severity"
    ELSE IF existing.Description # m.Description THEN "description"
    ELSE "none"

\* One iteration of the loop of AddVulnerabilityMetadata on record m:
\* the table it leaves, the branch it took, and the error it returns with
\* ("none": the loop goes on).
ProcessRecord(tbl, m, fault) ==
    LET got == GetVulnerabilityMetadata(tbl, m.ID, m.Namespace, fault)
        existing == got.val
    IN  IF got.err # "none"
        THEN [table |-> tbl, outcome |-> "lookup_failed", err |-> "verify"]
        ELSE IF existing # NoRecord
        THEN IF ConflictError(existing, m) # "none"
             THEN [table |-> tbl, outcome |-> "conflict",
                   err |-> ConflictError(existing, m)]
             ELSE LET newModel == NewVulnerabilityMetadataModel(MergedRecord(existing, m))
                  IN  IF fault = "write"
                      THEN [table |-> tbl, outcome |-> "merge_failed", err |-> "mismatch"]
                      ELSE [table |-> Save(tbl, newModel), outcome |-> "merged",
                            err |-> "none"]
        ELSE LET newModel == NewVulnerabilityMetadataModel(m)
             IN  IF fault = "write"
                 THEN [table |-> tbl, outcome |-> "insert_failed", err |-> "mismatch"]
                 ELSE [table |-> Create(tbl, newModel), outcome |-> "inserted",
                       err |-> "none"]

--------------------------------------------------------------------------
(* AddVulnerabilityMetadata(metadata...) *)

\* the call starts
AddVulnerabilityMetadataCall(b) ==
    /\ pc = "idle"
    /\ pc' = "running"
    /\ batch' = b
    /\ idx' = 1
    /\ pre' = metaTable
    /\ before' = metaTable
    /\ cur' = NoRecord
    /\ outcome' = "none"
    /\ err' = "none"
    /\ UNCHANGED metaTable

\* an iteration that undoes the call's earlier writes when it fails
AddVulnerabilityMetadataRecord_Rollback(fault) ==
    /\ pc = "running"
    /\ idx <= Len(batch)
    /\ LET r == ProcessRecord(metaTable, batch[idx], fault)
       IN  /\ metaTable' = IF r.err # "none" THEN pre ELSE r.table
           /\ outcome' = r.outcome
           /\ err' = r.err
           /\ pc' = IF r.err # "none" THEN "returned" ELSE "running"
           /\ idx' = IF r.err # "none" THEN idx ELSE idx + 1
    /\ before' = metaTable
    /\ cur' = batch[idx]
    /\ UNCHANGED <<batch, pre>>

\* one iteration of "for _, m := range metadata"
AddVulnerabilityMetadataRecord(fault) ==
    /\ pc = "running"
    /\ idx <= Len(batch)
    /\ LET r == ProcessRecord(metaTable, batch[idx], fault)
       IN  /\ metaTable' = r.table
           /\ outcome' = r.outcome
           /\ err' = r.err
           /\ pc' = IF r.err # "none" THEN "returned" ELSE "running"
           /\ idx' = IF r.err # "none" THEN idx ELSE idx + 1
    /\ before' = metaTable
    /\ cur' = batch[idx]
    /\ UNCHANGED <<batch, pre>>

\* the loop is over: return nil
AddVulnerabilityMetadataReturn ==
    /\ pc = "running"
    /\ idx > Len(batch)
    /\ pc' = "returned"
    /\ UNCHANGED <<metaTable, batch, idx, pre, before, cur, outcome, err>>

\* the caller has the result and moves on: the observation variables of the
\* finished call are reset
CallerProceeds ==
    /\ pc = "returned"
    /\ pc' = "idle"
    /\ batch' = <<>>
    /\ idx' = 1
    /\ pre' = metaTable
    /\ before' = metaTable
    /\ cur' = NoRecord
    /\ outcome' = "none"
    /\ err' = "none"
    /\ UNCHANGED metaTable

--------------------------------------------------------------------------
(* The Identity table: SetID and GetID *)

NoID == [none |-> TRUE]

\* the v5.ID values a caller passes: build timestamp and schema version
IDValues == [BuildTimestamp : {1, 2, 3}, SchemaVersion : {4, 5}]

\* model.NewIDModel(id): the row of an ID, its timestamp formatted as text
NewIDModel(id) ==
    [build_timestamp |-> <<"RFC3339Nano", id.BuildTimestamp>>,
     schema_version |-> id.SchemaVersion]

\* IDModel.Inflate(): the ID of a row, its timestamp parsed back
InflateID(row) ==
    [BuildTimestamp |-> row.build_timestamp[2], SchemaVersion |-> row.schema_version]

\* a SetID that leaves the old rows in place
DeleteIDs_Keep(tbl, fault) == tbl

\* s.db.Find(&ids).Delete(&ids): every row found is removed; the result of
\* the statement is not looked at, so when it fails the rows stay
DeleteIDs(tbl, fault) == IF fault = "none" THEN <<>> ELSE tbl

\* GetID() -> (id, error)
GetIDResult(tbl, fault) ==
    IF fault # "none" THEN [val |-> NoID, err |-> "db"]
    ELSE IF Len(tbl) > 1 THEN [val |-> NoID, err |-> "multiple"]
    ELSE IF Len(tbl) = 1 THEN [val |-> InflateID(tbl[1]), err |-> "none"]
    ELSE [val |-> NoID, err |-> "none"]

SetID(id, deleteFault, createFault) ==
    /\ idSets < MaxSetCalls
    /\ LET cleared == DeleteIDs(idTable, deleteFault)
           rowsAffected == IF createFault = "none" THEN 1 ELSE 0
       IN  /\ idTable' = IF createFault = "none"
                         THEN Append(cleared, NewIDModel(id)) ELSE cleared
           /\ idSetErr' = IF rowsAffected # 1 THEN "mismatch" ELSE "none"
    /\ idLast' = id
    /\ idSets' = idSets + 1
    /\ UNCHANGED <<idGot, idGotAt>>

GetID(fault) ==
    /\ idGot' = GetIDResult(idTable, fault)
    /\ idGotAt' = idSets
    /\ UNCHANGED <<idTable, idLast, idSetErr, idSets>>

--------------------------------------------------------------------------
(* DiffStore *)

NoResult == [none |-> TRUE]
NotRead == [notread |-> TRUE]
EmptyMap == [k \in {} |-> NoResult]

Vulnerability(id, ns, pkg, constraint) ==
    [ID |-> id, Namespace |-> ns, PackageName |-> pkg, VersionConstraint |-> constraint]

\* the Vulnerability rows of a snapshot: package p of (X, n) with one of two
\* constraints or absent, package q of (X, n) present or absent, package r
\* of a second key (Y, n) present or absent
VulnSnapshots ==
    {ps \cup qs \cup rs :
        ps \in {{}, {Vulnerability("X", "n", "p", "<2.0")},
                    {Vulnerability("X", "n", "p", "<3.0")}},
        qs \in {{}, {Vulnerability("X", "n", "q", "<2.0")}},
        rs \in {{}, {Vulnerability("Y", "n", "r", "<2.0")}}}

\* the VulnerabilityMetadata rows of a snapshot: none, or one row for (X, n)
MetaSnapshots ==
    {{}} \cup
    {{MetaRecord("X", "n", c[1], c[2], p)} :
        c \in {<<"Low", "d1">>, <<"High", "d1">>, <<"Low", "d2">>},
        p \in {<<(<<CvssA>>), (<<1>>)>>, <<(<<CvssA, CvssB>>), (<<1, 2>>)>>}}

\* the Identity and VulnerabilityMatchExclusion rows of a snapshot: both
\* tables empty, or one row in each
OtherTables ==
    {[identity |-> <<>>, exclusions |-> {}],
     [identity |-> <<[build_timestamp |-> <<"RFC3339Nano", 1>>, schema_version |-> 5]>>,
      exclusions |-> {[ID |-> "X", Justification |-> "j"]}]}

Snapshots ==
    {[vulns |-> v, metadata |-> m, identity |-> o.identity, exclusions |-> o.exclusions] :
        v \in VulnSnapshots, m \in MetaSnapshots, o \in OtherTables}

\* a full-table read works, or fails
ReadsWork == {TRUE}
ReadsMayFail == {TRUE, FALSE}

StageNames ==
    <<"reading target vulnerabilities", "reading base vulnerabilities", "preparing",
      "comparing vulnerabilities", "reading base metadata", "reading target metadata",
      "comparing metadata">>

ReadError(what) == <<"read error", what>>

ReadStep(what, ok) == [op |-> "read", what |-> what, ok |-> ok]
CompareStep(what) == [op |-> "compare", what |-> what, ok |-> TRUE]

\* trackDiff(7): two counters, not completed, and a stager
NewProgress == [current |-> 0, completed |-> FALSE]
Increment(p) == [p EXCEPT !.current = p.current + 1]
Add(p, n) == [p EXCEPT !.current = p.current + n]
SetCompleted(p) == [p EXCEPT !.completed = TRUE]

DiffKey(r) == <<r.ID, r.Namespace>>

\* buildVulnerabilityPkgsMap: (ID, Namespace) -> the package names of its rows
buildVulnerabilityPkgsMap(vulns) ==
    [k \in {DiffKey(v) : v \in vulns} |->
        {v.PackageName : v \in {w \in vulns : DiffKey(w) = k}}]

PkgsOf(pkgMap, k) == IF k \in DOMAIN pkgMap THEN pkgMap[k] ELSE {}

Diff(k, kind, reasons, basePkgs, targetPkgs) ==
    [ID |-> k[1], Namespace |-> k[2], Kind |-> kind, Reasons |-> reasons,
     Packages |-> PkgsOf(basePkgs, k) \cup PkgsOf(targetPkgs, k)]

\* what happened to package pkg of key k between the two snapshots
PackageChange(base, target, k, pkg) ==
    LET b == {v \in base : DiffKey(v) = k /\ v.PackageName = pkg}
        t == {v \in target : DiffKey(v) = k /\ v.PackageName = pkg}
    IN  IF b = {} /\ t = {} THEN "None"
        ELSE IF b = {} THEN "Added"
        ELSE IF t = {} THEN "Removed"
        ELSE IF b # t THEN "Changed"
        ELSE "None"

VulnReason(kind) ==
    IF kind = "Added" THEN "vulnerability added"
    ELSE IF kind = "Removed" THEN "vulnerability removed"
    ELSE "vulnerability changed"

\* diffVulnerabilities: (ID, Namespace) -> Diff, over the keys with a
\* package that was added, removed or changed
diffVulnerabilities(base, target, basePkgs, targetPkgs) ==
    LET keys == {DiffKey(v) : v \in base \cup target}
        changes(k) ==
            {PackageChange(base, target, k, pkg) :
                pkg \in PkgsOf(basePkgs, k) \cup PkgsOf(targetPkgs, k)} \ {"None"}
        kind(k) ==
            IF Cardinality(changes(k)) = 1
            THEN CHOOSE c \in changes(k) : TRUE ELSE "Changed"
    IN  [k \in {q \in keys : changes(q) # {}} |->
            Diff(k, kind(k), {VulnReason(c) : c \in changes(k)}, basePkgs, targetPkgs)]

MetaOf(rows, k) == CHOOSE r \in rows : DiffKey(r) = k

\* the reason tags of the fields in which two metadata records differ
MetaReasons(b, t) ==
    (IF b.Severity # t.Severity THEN {"severity changed"} ELSE {})
    \cup (IF b.Description # t.Description THEN {"description changed"} ELSE {})
    \cup (IF Range(b.Cvss) # Range(t.Cvss) THEN {"cvss changed"} ELSE {})
    \cup (IF Range(b.URLs) # Range(t.URLs) THEN {"urls changed"} ELSE {})

\* diffVulnerabilityMetadata: (ID, Namespace) -> Diff, over the keys whose
\* metadata was added, removed or changed
diffVulnerabilityMetadata(base, target, basePkgs, targetPkgs) ==
    LET bk == {DiffKey(r) : r \in base}
        tk == {DiffKey(r) : r \in target}
        changed == {k \in bk \cap tk : MetaReasons(MetaOf(base, k), MetaOf(target, k)) # {}}
    IN  [k \in (tk \ bk) \cup (bk \ tk) \cup changed |->
            IF k \notin bk THEN Diff(k, "Added", {"metadata added"}, basePkgs, targetPkgs)
            ELSE IF k \notin tk
            THEN Diff(k, "Removed", {"metadata removed"}, basePkgs, targetPkgs)
            ELSE Diff(k, "Changed", MetaReasons(MetaOf(base, k), MetaOf(target, k)),
                      basePkgs, targetPkgs)]

\* for k, diff := range *metaDiffsMap { (*allDiffsMap)[k] = diff }
MergeDiffMaps(all, meta) ==
    [k \in DOMAIN all \cup DOMAIN meta |-> IF k \in DOMAIN meta THEN meta[k] ELSE all[k]]

\* for _, diff := range *allDiffsMap { allDiffs = append(allDiffs, *diff) }:
\* the entries of the map, in the order the iteration yields them
RECURSIVE Flatten(_)
Flatten(m) ==
    IF DOMAIN m = {} THEN <<>>
    ELSE LET k == CHOOSE q \in DOMAIN m : TRUE
         IN  <<m[k]>> \o Flatten([q \in DOMAIN m \ {k} |-> m[q]])

\* return nil, err
DiffReturnsError(e) ==
    /\ diffErr' = e
    /\ dpc' = "done"

\* a read of the vulnerabilities that goes on after it failed
DiffReadTargetVulns_IgnoreError(ok) ==
    /\ dpc = "start"
    /\ stager' = Append(stager, StageNames[1])
    /\ trace' = Append(trace, ReadStep("target vulnerabilities", ok))
    /\ rowsProgress' = Increment(rowsProgress)
    /\ targetVulns' = targetStore.vulns
    /\ dpc' = "readBaseVulns"
    /\ UNCHANGED <<diffErr, baseStore, targetStore, diffItems, baseVulns, baseVulnPkgMap,
                   targetVulnPkgMap, allDiffsMap, baseMetadata, targetMetadata,
                   metaDiffsMap, allDiffs>>

\* stage 1: targetStore.GetAllVulnerabilities()
DiffReadTargetVulns(ok) ==
    /\ dpc = "start"
    /\ stager' = Append(stager, StageNames[1])
    /\ trace' = Append(trace, ReadStep("target vulnerabilities", ok))
    /\ rowsProgress' = Increment(rowsProgress)
    /\ IF ok
       THEN targetVulns' = targetStore.vulns /\ dpc' = "readBaseVulns" /\ UNCHANGED diffErr
       ELSE DiffReturnsError(ReadError("target vulnerabilities")) /\ UNCHANGED targetVulns
    /\ UNCHANGED <<baseStore, targetStore, diffItems, baseVulns, baseVulnPkgMap,
                   targetVulnPkgMap, allDiffsMap, baseMetadata, targetMetadata,
                   metaDiffsMap, allDiffs>>

\* a read of the base vulnerabilities that yields no rows
DiffReadBaseVulns_NoRows(ok) ==
    /\ dpc = "readBaseVulns"
    /\ stager' = Append(stager, StageNames[2])
    /\ trace' = Append(trace, ReadStep("base vulnerabilities", ok))
    /\ rowsProgress' = Increment(rowsProgress)
    /\ IF ok
       THEN baseVulns' = {} /\ dpc' = "prepare" /\ UNCHANGED diffErr
       ELSE DiffReturnsError(ReadError("base vulnerabilities")) /\ UNCHANGED baseVulns
    /\ UNCHANGED <<baseStore, targetStore, diffItems, targetVulns, baseVulnPkgMap,
                   targetVulnPkgMap, allDiffsMap, baseMetadata, targetMetadata,
                   metaDiffsMap, allDiffs>>

\* stage 2: s.GetAllVulnerabilities()
DiffReadBaseVulns(ok) ==
    /\ dpc = "readBaseVulns"
    /\ stager' = Append(stager, StageNames[2])
    /\ trace' = Append(trace, ReadStep("base vulnerabilities", ok))
    /\ rowsProgress' = Increment(rowsProgress)
    /\ IF ok
       THEN baseVulns' = baseStore.vulns /\ dpc' = "prepare" /\ UNCHANGED diffErr
       ELSE DiffReturnsError(ReadError("base vulnerabilities")) /\ UNCHANGED baseVulns
    /\ UNCHANGED <<baseStore, targetStore, diffItems, targetVulns, baseVulnPkgMap,
                   targetVulnPkgMap, allDiffsMap, baseMetadata, targetMetadata,
                   metaDiffsMap, allDiffs>>

\* a preparation that leaves both package maps empty
DiffPrepare_NoIndex ==
    /\ dpc = "prepare"
    /\ stager' = Append(stager, StageNames[3])
    /\ baseVulnPkgMap' = EmptyMap
    /\ targetVulnPkgMap' = EmptyMap
    /\ dpc' = "compareVulns"
    /\ UNCHANGED <<baseStore, targetStore, rowsProgress, diffItems, trace, targetVulns,
                   baseVulns, allDiffsMap, baseMetadata, targetMetadata, metaDiffsMap,
                   allDiffs, diffErr>>

\* stage 3: the two package maps
DiffPrepare ==
    /\ dpc = "prepare"
    /\ stager' = Append(stager, StageNames[3])
    /\ baseVulnPkgMap' = buildVulnerabilityPkgsMap(baseVulns)
    /\ targetVulnPkgMap' = buildVulnerabilityPkgsMap(targetVulns)
    /\ dpc' = "compareVulns"
    /\ UNCHANGED <<baseStore, targetStore, rowsProgress, diffItems, trace, targetVulns,
                   baseVulns, allDiffsMap, baseMetadata, targetMetadata, metaDiffsMap,
                   allDiffs, diffErr>>

\* stage 4: diffVulnerabilities
DiffCompareVulns ==
    /\ dpc = "compareVulns"
    /\ stager' = Append(stager, StageNames[4])
    /\ trace' = Append(trace, CompareStep("vulnerabilities"))
    /\ LET d == diffVulnerabilities(baseVulns, targetVulns, baseVulnPkgMap, targetVulnPkgMap)
       IN  /\ allDiffsMap' = d
           /\ diffItems' = Add(diffItems, Cardinality(DOMAIN d))
    /\ dpc' = "readBaseMeta"
    /\ UNCHANGED <<baseStore, targetStore, rowsProgress, targetVulns, baseVulns,
                   baseVulnPkgMap, targetVulnPkgMap, baseMetadata, targetMetadata,
                   metaDiffsMap, allDiffs, diffErr>>

\* a read of the base metadata that removes the rows it has read
DiffReadBaseMetadata_Consume(ok) ==
    /\ dpc = "readBaseMeta"
    /\ stager' = Append(stager, StageNames[5])
    /\ trace' = Append(trace, ReadStep("base metadata", ok))
    /\ IF ok
       THEN /\ baseMetadata' = baseStore.metadata
            /\ baseStore' = [baseStore EXCEPT !.metadata = {}]
            /\ rowsProgress' = Increment(rowsProgress)
            /\ dpc' = "readTargetMeta"
            /\ UNCHANGED diffErr
       ELSE /\ DiffReturnsError(ReadError("base metadata"))
            /\ UNCHANGED <<baseStore, baseMetadata, rowsProgress>>
    /\ UNCHANGED <<targetStore, diffItems, targetVulns, baseVulns,
                   baseVulnPkgMap, targetVulnPkgMap, allDiffsMap, targetMetadata,
                   metaDiffsMap, allDiffs>>

\* stage 5: s.GetAllVulnerabilityMetadata()
DiffReadBaseMetadata(ok) ==
    /\ dpc = "readBaseMeta"
    /\ stager' = Append(stager, StageNames[5])
    /\ trace' = Append(trace, ReadStep("base metadata", ok))
    /\ IF ok
       THEN /\ baseMetadata' = baseStore.metadata
            /\ rowsProgress' = Increment(rowsProgress)
            /\ dpc' = "readTargetMeta"
            /\ UNCHANGED diffErr
       ELSE /\ DiffReturnsError(ReadError("base metadata"))
            /\ UNCHANGED <<baseMetadata, rowsProgress>>
    /\ UNCHANGED <<baseStore, targetStore, diffItems, targetVulns, baseVulns,
                   baseVulnPkgMap, targetVulnPkgMap, allDiffsMap, targetMetadata,
                   metaDiffsMap, allDiffs>>

\* stage 6: targetStore.GetAllVulnerabilityMetadata()
DiffReadTargetMetadata(ok) ==
    /\ dpc = "readTargetMeta"
    /\ stager' = Append(stager, StageNames[6])
    /\ trace' = Append(trace, ReadStep("target metadata", ok))
    /\ IF ok
       THEN /\ targetMetadata' = targetStore.metadata
            /\ rowsProgress' = Increment(rowsProgress)
            /\ dpc' = "compareMeta"
            /\ UNCHANGED diffErr
       ELSE /\ DiffReturnsError(ReadError("target metadata"))
            /\ UNCHANGED <<targetMetadata, rowsProgress>>
    /\ UNCHANGED <<baseStore, targetStore, diffItems, targetVulns, baseVulns,
                   baseVulnPkgMap, targetVulnPkgMap, allDiffsMap, baseMetadata,
                   metaDiffsMap, allDiffs>>

\* stage 7: diffVulnerabilityMetadata, the merge of the two maps, the
\* flattening, and the completion of both counters
DiffCompareMetadata ==
    /\ dpc = "compareMeta"
    /\ stager' = Append(stager, StageNames[7])
    /\ trace' = Append(trace, CompareStep("metadata"))
    /\ LET d == diffVulnerabilityMetadata(baseMetadata, targetMetadata,
                                          baseVulnPkgMap, targetVulnPkgMap)
           merged == MergeDiffMaps(allDiffsMap, d)
       IN  /\ metaDiffsMap' = d
           /\ allDiffsMap' = merged
           /\ allDiffs' = Flatten(merged)
           /\ diffItems' = SetCompleted(Add(diffItems, Cardinality(DOMAIN d)))
    /\ rowsProgress' = SetCompleted(rowsProgress)
    /\ dpc' = "done"
    /\ UNCHANGED <<baseStore, targetStore, targetVulns, baseVulns, baseVulnPkgMap,
                   targetVulnPkgMap, baseMetadata, targetMetadata, diffErr>>

\* the locals of DiffStore as it is entered, on the given two stores
DiffStart(base, target) ==
    /\ baseStore = base
    /\ targetStore = target
    /\ dpc = "start"
    /\ stager = <<>>
    /\ rowsProgress = NewProgress
    /\ diffItems = NewProgress
    /\ trace = <<>>
    /\ targetVulns = NotRead
    /\ baseVulns = NotRead
    /\ baseVulnPkgMap = EmptyMap
    /\ targetVulnPkgMap = EmptyMap
    /\ allDiffsMap = EmptyMap
    /\ baseMetadata = NotRead
    /\ targetMetadata = NotRead
    /\ metaDiffsMap = EmptyMap
    /\ allDiffs = NoResult
    /\ diffErr = "none"

--------------------------------------------------------------------------
(* The Vulnerability table: AddVulnerability, SearchForVulnerabilities and *)
(* GetVulnerabilityNamespaces                                              *)

MaxVulnRows == 3

\* the v5.Vulnerability values a caller passes: two namespaces with the same
\* package, and a second package in one of them
VulnRecords ==
    {Vulnerability("X", "n", "p", "<2.0"),
     Vulnerability("X", "m", "p", "<2.0"),
     Vulnerability("Z", "n", "q", "<3.0")}

VulnBatches == SeqsUpTo(VulnRecords, MaxBatch)

\* the metadata records a caller passes here: one in a namespace that has
\* Vulnerability records, one in a namespace that has none
NamespaceRecords ==
    {MetaRecord("X", "n", "Low", "d1", <<(<<>>), (<<>>)>>),
     MetaRecord("X", "o", "Low", "d1", <<(<<>>), (<<>>)>>)}

NamespaceBatches == {<<r>> : r \in NamespaceRecords}

SearchNamespaces == {"n", "m"}
SearchPackages == {"p", "q"}

\* an insert fails with an error, or affects no row
WriteFaults == {"db", "mismatch"}

NoSearch == [none |-> TRUE]
NotAsked == [val |-> <<>>, err |-> "unset"]
NoNames == [val |-> {}, err |-> "unset"]

\* model.NewVulnerabilityModel(v): the row of v, by column
NewVulnerabilityModel(v) ==
    [id |-> v.ID, namespace |-> v.Namespace, package_name |-> v.PackageName,
     version_constraint |-> v.VersionConstraint]

\* VulnerabilityModel.Inflate(): the record a row holds
InflateVulnerability(row) ==
    Vulnerability(row.id, row.namespace, row.package_name, row.version_constraint)

\* a search on the namespace alone
SearchRows_NamespaceOnly(tbl, namespace, packageName) ==
    SelectSeq(tbl, LAMBDA r : r.namespace = namespace)

\* s.db.Where("namespace = ? AND package_name = ?", namespace, packageName).Find(&models)
SearchRows(tbl, namespace, packageName) ==
    SelectSeq(tbl, LAMBDA r : r.namespace = namespace /\ r.package_name = packageName)

\* s.db.Model(&model.VulnerabilityMetadataModel{}).Distinct().Pluck("namespace", &names):
\* the distinct values of the column, in no specified order
PluckNamespaces(meta) == {r.Namespace : r \in Range(meta)}

\* AddVulnerability(vulnerabilities...): the records are inserted one by one;
\* the insert of record failAt (0: none) fails, and the call returns there
AddVulnerability(b, failAt, fault) ==
    /\ LET inserted == IF failAt = 0 THEN Len(b) ELSE failAt - 1
       IN  /\ Len(vulnTable) + inserted <= MaxVulnRows
           /\ vulnTable' = vulnTable \o
                    [i \in 1..inserted |-> NewVulnerabilityModel(b[i])]
           /\ vulnAdded' = vulnAdded \o SubSeq(b, 1, inserted)
    /\ vulnErr' = IF failAt = 0 THEN "none" ELSE fault
    /\ searched' = NoSearch
    /\ found' = NotAsked
    /\ names' = NoNames

\* SearchForVulnerabilities(namespace, packageName) -> (list, error)
SearchForVulnerabilities(namespace, packageName, ok) ==
    /\ searched' = [namespace |-> namespace, packageName |-> packageName]
    /\ LET models == IF ok THEN SearchRows(vulnTable, namespace, packageName) ELSE <<>>
           vulnerabilities == [i \in 1..Len(models) |-> InflateVulnerability(models[i])]
       IN  found' = [val |-> vulnerabilities, err |-> IF ok THEN "none" ELSE "db"]
    /\ UNCHANGED <<vulnTable, vulnAdded, vulnErr, names>>

\* GetVulnerabilityNamespaces() -> (names, error)
GetVulnerabilityNamespaces(ok) ==
    /\ names' = IF ok THEN [val |-> PluckNamespaces(metaTable), err |-> "none"]
                 ELSE [val |-> {}, err |-> "db"]
    /\ UNCHANGED <<vulnTable, vulnAdded, vulnErr, searched, found>>

\* a write to the metadata table, seen from the callers of the reads above:
\* what GetVulnerabilityNamespaces returned earlier is out of date
NamesOutOfDate ==
    /\ names' = NoNames
    /\ UNCHANGED <<vulnTable, vulnAdded, vulnErr, searched, found>>

VulnInit ==
    /\ vulnTable = <<>>
    /\ vulnAdded = <<>>
    /\ vulnErr = "none"
    /\ searched = NoSearch
    /\ found = NotAsked
    /\ names = NoNames

--------------------------------------------------------------------------
(* Close *)

memoryEfficientStatements ==
    <<"PRAGMA cache_size = -32768", "PRAGMA temp_store = FILE",
      "PRAGMA mmap_size = 67108864", "PRAGMA journal_mode = TRUNCATE">>

\* what can go wrong in lines 304-307: the Close of the connection fails, or
\* s.db.DB() hands out no connection to close
ReleaseFaults == {"none", "close failed", "no connection"}

Issued(what, fault) == [what |-> what, fault |-> fault]

\* Close is entered
CloseCall ==
    /\ cpc = "open"
    /\ cpc' = "settings"
    /\ stmtIdx' = 1
    /\ UNCHANGED <<closeLog, connOpen, closeRet>>

\* a loop that returns the error of the first statement that fails
CloseApplySetting_Abort(fault) ==
    /\ cpc = "settings"
    /\ stmtIdx <= Len(memoryEfficientStatements)
    /\ closeLog' = Append(closeLog, Issued(memoryEfficientStatements[stmtIdx], fault))
    /\ stmtIdx' = stmtIdx + 1
    /\ cpc' = IF fault # "none" THEN "returned" ELSE "settings"
    /\ closeRet' = IF fault # "none" THEN "exec failed" ELSE closeRet
    /\ UNCHANGED connOpen

\* one iteration of "for _, stmt := range memoryEfficientStatements": the
\* outcome of the statement is logged, and the loop goes on
CloseApplySetting(fault) ==
    /\ cpc = "settings"
    /\ stmtIdx <= Len(memoryEfficientStatements)
    /\ closeLog' = Append(closeLog, Issued(memoryEfficientStatements[stmtIdx], fault))
    /\ stmtIdx' = stmtIdx + 1
    /\ UNCHANGED <<cpc, connOpen, closeRet>>

\* s.db.Exec("VACUUM;"): its result is not looked at
CloseVacuum(fault) ==
    /\ cpc = "settings"
    /\ stmtIdx > Len(memoryEfficientStatements)
    /\ closeLog' = Append(closeLog, Issued("VACUUM;", fault))
    /\ cpc' = "release"
    /\ UNCHANGED <<stmtIdx, connOpen, closeRet>>

\* sqlDB, _ := s.db.DB(); if sqlDB != nil { _ = sqlDB.Close() }; return nil
CloseRelease(fault) ==
    /\ cpc = "release"
    /\ closeLog' = Append(closeLog, Issued("release", fault))
    /\ connOpen' = IF fault = "none" THEN FALSE ELSE connOpen
    /\ closeRet' = "none"
    /\ cpc' = "returned"
    /\ UNCHANGED stmtIdx

CloseInit ==
    /\ cpc = "open"
    /\ stmtIdx = 1
    /\ closeLog = <<>>
    /\ connOpen = TRUE
    /\ closeRet = "pending"

--------------------------------------------------------------------------
MetaInit ==
    /\ metaTable = <<>>
    /\ pc = "idle"
    /\ batch = <<>>
    /\ idx = 1
    /\ pre = <<>>
    /\ before = <<>>
    /\ cur = NoRecord
    /\ outcome = "none"
    /\ err = "none"

IdInit ==
    /\ idTable = <<>>
    /\ idLast = NoID
    /\ idSetErr = "none"
    /\ idSets = 0
    /\ idGot = [val |-> NoID, err |-> "unset"]
    /\ idGotAt = 0

EmptySnapshot == [vulns |-> {}, metadata |-> {}, identity |-> <<>>, exclusions |-> {}]

Init ==
    /\ MetaInit /\ IdInit /\ VulnInit /\ CloseInit
    /\ DiffStart(EmptySnapshot, EmptySnapshot)

\* DiffStore entered on any two snapshots
DiffInit ==
    /\ MetaInit
    /\ IdInit
    /\ VulnInit
    /\ CloseInit
    /\ \E base \in Snapshots, target \in Snapshots : DiffStart(base, target)

Next ==
    \/ \E b \in Batches : AddVulnerabilityMetadataCall(b) /\ UNCHANGED <<idVars, diffVars, vulnVars, closeVars>>
    \/ \E f \in NoFaults : AddVulnerabilityMetadataRecord(f) /\ UNCHANGED <<idVars, diffVars, vulnVars, closeVars>>
    \/ AddVulnerabilityMetadataReturn /\ UNCHANGED <<idVars, diffVars, vulnVars, closeVars>>
    \/ CallerProceeds /\ UNCHANGED <<idVars, diffVars, vulnVars, closeVars>>

Spec == Init /\ [][Next]_vars

FaultNext ==
    \/ \E b \in Batches : AddVulnerabilityMetadataCall(b) /\ UNCHANGED <<idVars, diffVars, vulnVars, closeVars>>
    \/ \E f \in Faults : AddVulnerabilityMetadataRecord(f) /\ UNCHANGED <<idVars, diffVars, vulnVars, closeVars>>
    \/ AddVulnerabilityMetadataReturn /\ UNCHANGED <<idVars, diffVars, vulnVars, closeVars>>
    \/ CallerProceeds /\ UNCHANGED <<idVars, diffVars, vulnVars, closeVars>>

FaultSpec == Init /\ [][FaultNext]_vars

\* the Identity table with storage that works
IdNext ==
    \/ \E id \in IDValues : SetID(id, "none", "none") /\ UNCHANGED <<metaVars, diffVars, vulnVars, closeVars>>
    \/ GetID("none") /\ UNCHANGED <<metaVars, diffVars, vulnVars, closeVars>>

IdSpec == Init /\ [][IdNext]_vars

\* DiffStore on stores whose reads work
DiffNext ==
    \/ \E ok \in ReadsWork : DiffReadTargetVulns(ok) /\ UNCHANGED <<metaVars, idVars, vulnVars, closeVars>>
    \/ \E ok \in ReadsWork : DiffReadBaseVulns(ok) /\ UNCHANGED <<metaVars, idVars, vulnVars, closeVars>>
    \/ DiffPrepare /\ UNCHANGED <<metaVars, idVars, vulnVars, closeVars>>
    \/ DiffCompareVulns /\ UNCHANGED <<metaVars, idVars, vulnVars, closeVars>>
    \/ \E ok \in ReadsWork : DiffReadBaseMetadata(ok) /\ UNCHANGED <<metaVars, idVars, vulnVars, closeVars>>
    \/ \E ok \in ReadsWork : DiffReadTargetMetadata(ok) /\ UNCHANGED <<metaVars, idVars, vulnVars, closeVars>>
    \/ DiffCompareMetadata /\ UNCHANGED <<metaVars, idVars, vulnVars, closeVars>>

DiffSpec == DiffInit /\ [][DiffNext]_vars

\* DiffStore on stores whose reads may fail
DiffFaultNext ==
    \/ \E ok \in ReadsMayFail : DiffReadTargetVulns(ok) /\ UNCHANGED <<metaVars, idVars, vulnVars, closeVars>>
    \/ \E ok \in ReadsMayFail : DiffReadBaseVulns(ok) /\ UNCHANGED <<metaVars, idVars, vulnVars, closeVars>>
    \/ DiffPrepare /\ UNCHANGED <<metaVars, idVars, vulnVars, closeVars>>
    \/ DiffCompareVulns /\ UNCHANGED <<metaVars, idVars, vulnVars, closeVars>>
    \/ \E ok \in ReadsMayFail : DiffReadBaseMetadata(ok) /\ UNCHANGED <<metaVars, idVars, vulnVars, closeVars>>
    \/ \E ok \in ReadsMayFail : DiffReadTargetMetadata(ok) /\ UNCHANGED <<metaVars, idVars, vulnVars, closeVars>>
    \/ DiffCompareMetadata /\ UNCHANGED <<metaVars, idVars, vulnVars, closeVars>>

DiffFaultSpec == DiffInit /\ [][DiffFaultNext]_vars

\* the Identity table with statements that may fail
IdFaultNext ==
    \/ \E id \in IDValues, df \in StatementFaults, cf \in StatementFaults :
            SetID(id, df, cf) /\ UNCHANGED <<metaVars, diffVars, vulnVars, closeVars>>
    \/ \E f \in StatementFaults : GetID(f) /\ UNCHANGED <<metaVars, diffVars, vulnVars, closeVars>>

IdFaultSpec == Init /\ [][IdFaultNext]_vars

\* the Vulnerability table, with inserts that may fail, next to a metadata
\* table that is written to
VulnNext ==
    \/ \E b \in VulnBatches, failAt \in 0..MaxBatch, fault \in WriteFaults :
            /\ failAt <= Len(b)
            /\ failAt = 0 => fault = "db"
            /\ AddVulnerability(b, failAt, fault)
            /\ UNCHANGED <<metaVars, idVars, diffVars, closeVars>>
    \/ \E namespace \in SearchNamespaces, packageName \in SearchPackages, ok \in ReadsWork :
            /\ SearchForVulnerabilities(namespace, packageName, ok)
            /\ UNCHANGED <<metaVars, idVars, diffVars, closeVars>>
    \/ \E ok \in ReadsWork : GetVulnerabilityNamespaces(ok) /\ UNCHANGED <<metaVars, idVars, diffVars, closeVars>>
    \/ \E b \in NamespaceBatches : AddVulnerabilityMetadataCall(b) /\ UNCHANGED <<idVars, diffVars, vulnVars, closeVars>>
    \/ \E f \in NoFaults : AddVulnerabilityMetadataRecord(f) /\ NamesOutOfDate /\ UNCHANGED <<idVars, diffVars, closeVars>>
    \/ AddVulnerabilityMetadataReturn /\ UNCHANGED <<idVars, diffVars, vulnVars, closeVars>>
    \/ CallerProceeds /\ UNCHANGED <<idVars, diffVars, vulnVars, closeVars>>

VulnSpec == Init /\ [][VulnNext]_vars

\* Close on a store whose statements and whose connection may fail
CloseNext ==
    \/ CloseCall /\ UNCHANGED <<metaVars, idVars, diffVars, vulnVars>>
    \/ \E f \in StatementFaults : CloseApplySetting(f) /\ UNCHANGED <<metaVars, idVars, diffVars, vulnVars>>
    \/ \E f \in StatementFaults : CloseVacuum(f) /\ UNCHANGED <<metaVars, idVars, diffVars, vulnVars>>
    \/ \E f \in ReleaseFaults : CloseRelease(f) /\ UNCHANGED <<metaVars, idVars, diffVars, vulnVars>>

CloseSpec == Init /\ [][CloseNext]_vars

--------------------------------------------------------------------------
(* Properties of AddVulnerabilityMetadata *)

Stored(tbl, k) == FindMetadata(tbl, k[1], k[2])

StrictlyAscending(s) == \A i, j \in 1..Len(s) : i < j => s[i] < s[j]

FailedOutcomes == {"lookup_failed", "conflict", "merge_failed", "insert_failed"}

\* C1: starting from the empty store, whatever calls were made and however
\* they ended, the table holds at most one row per (ID, Namespace), and
\* GetVulnerabilityMetadata does not fail with the multiple-records error.
MetadataUniquePerKey ==
    \A k \in Keys :
        /\ Len(Stored(metaTable, k)) <= 1
        /\ GetVulnerabilityMetadata(metaTable, k[1], k[2], "none").err # "multiple"

\* a record was merged into a stored key while the other key is stored too,
\* in a call whose first record had already been stored
MetadataUniquePerKey_Witness ==
    /\ outcome = "merged"
    /\ idx = 3
    /\ Len(metaTable) = 2
    /\ Len(pre) = 2

\* the record stored under cur's key when cur was reached
ExistingBefore == Stored(before, Key(cur))

ConflictsWith(rows, m) ==
    /\ Len(rows) = 1
    /\ (rows[1].Severity # m.Severity \/ rows[1].Description # m.Description)

\* C2 (as amended): a record whose key is stored with another Severity or
\* Description makes the call return a conflict error and leaves the table
\* as it was when the record was reached; the stored record is the one
\* stored before the call when no earlier record of the batch has that key.
ConflictKeepsRecordAsReached ==
    (cur # NoRecord /\ ConflictsWith(ExistingBefore, cur)) =>
        /\ pc = "returned"
        /\ err \in {"severity", "description"}
        /\ metaTable = before
        /\ Stored(metaTable, Key(cur)) = ExistingBefore
        /\ ((\A j \in 1..(idx - 1) : Key(batch[j]) # Key(cur)) =>
                Stored(metaTable, Key(cur)) = Stored(pre, Key(cur)))

\* a conflict on the second record of a batch whose first record was merged
\* into the same key
ConflictKeepsRecordAsReached_Witness ==
    /\ cur # NoRecord
    /\ ConflictsWith(ExistingBefore, cur)
    /\ idx = 2
    /\ Key(batch[1]) = Key(cur)
    /\ before # pre

\* C2 (as stated): a record whose key is stored, when the call starts, with
\* another Severity or Description makes the call return a conflict error
\* and leaves the stored record as it was before the call.
ConflictKeepsRecordSinceCall ==
    (pc = "returned" /\ cur # NoRecord /\ ConflictsWith(Stored(pre, Key(cur)), cur)) =>
        /\ err \in {"severity", "description"}
        /\ Stored(metaTable, Key(cur)) = Stored(pre, Key(cur))

\* the incoming entries, in incoming order, that are neither in the stored
\* list nor a repetition of an earlier incoming entry
NewCvssEntries(stored, incoming) ==
    LET positions == [i \in 1..Len(incoming) |-> i]
        fresh == SelectSeq(positions, LAMBDA i :
                    /\ \A j \in 1..Len(stored) : stored[j] # incoming[i]
                    /\ \A j \in 1..(i - 1) : incoming[j] # incoming[i])
    IN  [n \in 1..Len(fresh) |-> incoming[fresh[n]]]

\* C3: after a merge the stored Cvss is the list stored before followed, in
\* incoming order, by the incoming entries not yet in the list, and the
\* stored URLs are the union of the stored and the incoming URLs in
\* ascending order without duplicates.
MergeResult ==
    outcome = "merged" =>
        LET old == ExistingBefore[1]
            new == Stored(metaTable, Key(cur))[1]
        IN  /\ Len(ExistingBefore) = 1
            /\ Len(Stored(metaTable, Key(cur))) = 1
            /\ new.Cvss = old.Cvss \o NewCvssEntries(old.Cvss, cur.Cvss)
            /\ Range(new.URLs) = Range(old.URLs) \cup Range(cur.URLs)
            /\ StrictlyAscending(new.URLs)

\* <<B, A, B>> merged into a stored <<A>>, and URLs <<2, 1>> into <<2>>
MergeResult_Witness ==
    /\ outcome = "merged"
    /\ ExistingBefore[1].Cvss = <<CvssA>>
    /\ cur.Cvss = <<CvssB, CvssA, CvssB>>
    /\ Stored(metaTable, Key(cur))[1].Cvss = <<CvssA, CvssB>>
    /\ Stored(metaTable, Key(cur))[1].URLs = <<1, 2>>

\* m was added twice to the empty store: twice in one batch, or in a second
\* call on the store that holds only m
AddedTwice(m) ==
    /\ pc = "returned"
    /\ \/ pre = <<>> /\ batch = <<m, m>>
       \/ pre = <<m>> /\ batch = <<m>>

AddedOnce(m) == pc = "returned" /\ pre = <<>> /\ batch = <<m>>

\* what is stored for m is m's own Cvss and URLs
StoresListsOf(m) ==
    /\ err = "none"
    /\ Len(metaTable) = 1
    /\ metaTable[1].Cvss = m.Cvss
    /\ metaTable[1].URLs = m.URLs

StoredWithoutDuplicates ==
    \A i \in 1..Len(metaTable) :
        NoDuplicates(metaTable[i].Cvss) /\ NoDuplicates(metaTable[i].URLs)

Normalised(m) == NoDuplicates(m.Cvss) /\ StrictlyAscending(m.URLs)

\* C4 (as amended): for a record m whose Cvss has no two equal entries and
\* whose URLs are in ascending order without duplicates, adding m twice to
\* the empty store leaves Cvss and URLs without duplicates and equal to
\* those stored by adding m once.
AddTwiceNormalised ==
    \A m \in Records :
        /\ AddedOnce(m) => StoresListsOf(m) /\ metaTable = <<m>>
        /\ (Normalised(m) /\ AddedTwice(m)) =>
                StoresListsOf(m) /\ StoredWithoutDuplicates

AddTwiceNormalised_Witness ==
    \E m \in Records :
        /\ Normalised(m)
        /\ m.Cvss # <<>>
        /\ pc = "returned" /\ pre = <<>> /\ batch = <<m, m>>
        /\ outcome = "merged"

\* C4 (as stated): the same for every record m.
AddTwiceAnyRecord ==
    \A m \in Records :
        /\ AddedOnce(m) => StoresListsOf(m)
        /\ AddedTwice(m) => StoresListsOf(m) /\ StoredWithoutDuplicates

\* the earlier record r of the batch is stored: its key has one row, with
\* r's Severity and Description, holding r's Cvss entries and URLs
EffectRemains(tbl, r) ==
    LET rows == Stored(tbl, Key(r))
    IN  /\ Len(rows) = 1
        /\ rows[1].Severity = r.Severity
        /\ rows[1].Description = r.Description
        /\ Range(r.Cvss) \subseteq Range(rows[1].Cvss)
        /\ Range(r.URLs) \subseteq Range(rows[1].URLs)

\* C6: when a record of the batch fails (conflict, write mismatch or failed
\* lookup) the call returns an error at once, the failing record leaves the
\* table as it found it, and what the earlier records of the batch wrote is
\* still stored.
BatchFailsEagerly ==
    (cur # NoRecord /\ outcome \in FailedOutcomes) =>
        /\ pc = "returned"
        /\ err # "none"
        /\ cur = batch[idx]
        /\ metaTable = before
        /\ \A j \in 1..(idx - 1) : EffectRemains(metaTable, batch[j])

\* the second record of a batch fails on a write after the first one was
\* inserted as a new row
BatchFailsEagerly_Witness ==
    /\ outcome \in {"merge_failed", "insert_failed", "conflict"}
    /\ err # "none"
    /\ idx = 2
    /\ Len(batch) = 2
    /\ Len(metaTable) = Len(pre) + 1

IsPrefix(s, t) == Len(s) <= Len(t) /\ s = SubSeq(t, 1, Len(s))

\* what is stored under k in old is stored under k in new, with the same
\* Severity and Description, a Cvss list that extends the old one, and at
\* least the old URLs
GrowsAt(old, new, k) ==
    Stored(old, k) # <<>> =>
        /\ Len(Stored(new, k)) = 1
        /\ Stored(new, k)[1].Severity = Stored(old, k)[1].Severity
        /\ Stored(new, k)[1].Description = Stored(old, k)[1].Description
        /\ IsPrefix(Stored(old, k)[1].Cvss, Stored(new, k)[1].Cvss)
        /\ Range(Stored(old, k)[1].URLs) \subseteq Range(Stored(new, k)[1].URLs)

\* C18: across any sequence of AddVulnerabilityMetadata calls the record
\* stored under a key only grows: every step, and so every call, leaves its
\* Severity and Description as first inserted, its Cvss list with the list
\* before as a prefix, and its URLs a superset of the URLs before.
MetadataOnlyGrows ==
    [][\A k \in Keys : GrowsAt(metaTable, metaTable', k)]_vars

\* a call merged into a record stored before the call: the Cvss list and
\* the URLs are longer than before the call, the first entries are the old
\* ones
MetadataOnlyGrows_Witness ==
    /\ pc = "returned"
    /\ err = "none"
    /\ \E k \in Keys :
            /\ Len(Stored(pre, k)) = 1
            /\ Len(Stored(metaTable, k)) = 1
            /\ Len(Stored(pre, k)[1].Cvss) = 1
            /\ Len(Stored(metaTable, k)[1].Cvss) = 2
            /\ Stored(metaTable, k)[1].Cvss[1] = Stored(pre, k)[1].Cvss[1]
            /\ Len(Stored(metaTable, k)[1].URLs) > Len(Stored(pre, k)[1].URLs)

HasDuplicates(s) == ~NoDuplicates(s)

\* C19: a merge never introduces a duplicate Cvss entry: a stored list
\* without two equal entries is without them after a record was merged into
\* it, and after the whole call, also when the incoming list repeats an entry.
MergeAddsNoDuplicateCvss ==
    /\ (outcome = "merged" /\ NoDuplicates(ExistingBefore[1].Cvss)) =>
            NoDuplicates(Stored(metaTable, Key(cur))[1].Cvss)
    /\ \A k \in Keys :
            (Stored(pre, k) # <<>> /\ NoDuplicates(Stored(pre, k)[1].Cvss)) =>
                /\ Stored(metaTable, k) # <<>>
                /\ NoDuplicates(Stored(metaTable, k)[1].Cvss)

\* a record whose Cvss list repeats an entry was merged, in a second call,
\* into a stored list without duplicates that held one of its entries
MergeAddsNoDuplicateCvss_Witness ==
    /\ outcome = "merged"
    /\ HasDuplicates(cur.Cvss)
    /\ Stored(pre, Key(cur)) # <<>>
    /\ Stored(pre, Key(cur))[1].Cvss # <<>>
    /\ NoDuplicates(Stored(pre, Key(cur))[1].Cvss)
    /\ Len(Stored(metaTable, Key(cur))[1].Cvss) > Len(Stored(pre, Key(cur))[1].Cvss)

--------------------------------------------------------------------------
(* Properties of SetID and GetID *)

SetIDSucceedsOnlyWithOneRow ==
    idSets > 0 =>
        /\ idSetErr = "none" => Len(idTable) = 1
        /\ Len(idTable) # 1 => idSetErr = "mismatch"

--------------------------------------------------------------------------
(* Properties of DiffStore *)

Returned == dpc = "done"
Succeeded == dpc = "done" /\ diffErr = "none"

\* what the vulnerability stage produced in this run
VulnStageDiffs ==
    diffVulnerabilities(baseVulns, targetVulns, baseVulnPkgMap, targetVulnPkgMap)

EntriesFor(k) == SelectSeq(allDiffs, LAMBDA d : DiffKey(d) = k)

\* C7: for a key with an entry from both stages the returned changeset has
\* exactly one entry, and its reasons include those of the vulnerability
\* stage and those of the metadata stage.
DiffKeepsBothReasonSets ==
    Succeeded =>
        \A k \in DOMAIN VulnStageDiffs \cap DOMAIN metaDiffsMap :
            /\ Len(EntriesFor(k)) = 1
            /\ VulnStageDiffs[k].Reasons \subseteq EntriesFor(k)[1].Reasons
            /\ metaDiffsMap[k].Reasons \subseteq EntriesFor(k)[1].Reasons

FailedReads == {i \in 1..Len(trace) : trace[i].op = "read" /\ ~trace[i].ok}

\* C8: when a full-table read fails, DiffStore returns that read's error and
\* no changeset, and the failed read is the last thing it did: no later
\* read, no later comparison.
DiffAbortsOnReadError ==
    \A i \in FailedReads :
        /\ Returned
        /\ diffErr = ReadError(trace[i].what)
        /\ allDiffs = NoResult
        /\ i = Len(trace)
        /\ Len(stager) = IF i <= 2 THEN i ELSE i + 1

\* the read of the base metadata failed, after both comparisons' inputs
\* were read and the vulnerabilities compared
DiffAbortsOnReadError_Witness ==
    /\ Returned
    /\ Len(trace) = 4
    /\ trace[4] = ReadStep("base metadata", FALSE)
    /\ diffErr = ReadError("base metadata")
    /\ allDiffsMap # EmptyMap

\* C9: when DiffStore has returned, with a changeset or with a read error,
\* both progress counters are marked complete.
DiffCompletesCounters ==
    Returned => rowsProgress.completed /\ diffItems.completed

ReadsPerformed == Cardinality({i \in 1..Len(trace) : trace[i].op = "read"})

\* C10: the stages are reported in the fixed order, all seven of them in a
\* run that succeeds; the row counter equals the number of full-table reads
\* performed so far, and is 4 when a run succeeds.
DiffProgressMatchesReads ==
    /\ Len(stager) <= 7
    /\ stager = SubSeq(StageNames, 1, Len(stager))
    /\ rowsProgress.current = ReadsPerformed
    /\ Succeeded => stager = StageNames /\ rowsProgress.current = 4

--------------------------------------------------------------------------
(* Properties of the Vulnerability table *)

NamespacesOf(rows) == {r.namespace : r \in Range(rows)}

\* C11: GetVulnerabilityNamespaces returns exactly the distinct Namespace
\* values of the Vulnerability records in the store: a namespace with
\* Vulnerability records and no metadata record is returned, one with
\* metadata records only is not.
NamespacesOfVulnerabilities ==
    names.err = "none" => names.val = NamespacesOf(vulnTable)

Count(s, x) == Cardinality({i \in 1..Len(s) : s[i] = x})

\* the records inserted so far whose Namespace and PackageName are the given ones
Matching(namespace, packageName) ==
    SelectSeq(vulnAdded, LAMBDA v : v.Namespace = namespace /\ v.PackageName = packageName)

\* C16: after any sequence of AddVulnerability calls, failed ones included,
\* SearchForVulnerabilities(namespace, packageName) returns without error
\* exactly the inserted records whose Namespace and PackageName both equal
\* the arguments, each as often as it was inserted, and the empty list when
\* there is none.
SearchReturnsMatches ==
    searched # NoSearch =>
        LET expected == Matching(searched.namespace, searched.packageName)
        IN  /\ found.err = "none"
            /\ Len(found.val) = Len(expected)
            /\ \A v \in VulnRecords : Count(found.val, v) = Count(expected, v)
            /\ \A i \in 1..Len(found.val) :
                    /\ found.val[i].Namespace = searched.namespace
                    /\ found.val[i].PackageName = searched.packageName
            /\ expected = <<>> => found.val = <<>>

\* a record inserted twice is found twice, next to a row of the same
\* namespace and another package, after a call that failed on its second
\* record
SearchReturnsMatches_Witness ==
    /\ searched # NoSearch
    /\ vulnErr = "mismatch"
    /\ Len(vulnTable) = 3
    /\ Len(found.val) = 2
    /\ found.val[1] = found.val[2]
    /\ \E i \in 1..3 : vulnTable[i].namespace = searched.namespace
                         /\ vulnTable[i].package_name # searched.packageName

\* C13: DiffStore performs no writes: no step of it changes the Identity,
\* Vulnerability, VulnerabilityMetadata or VulnerabilityMatchExclusion
\* records of the base or of the target store, so both stores are the same
\* when it returns, with a changeset or with an error, as when it was called.
DiffStoreWritesNothing ==
    [][baseStore' = baseStore /\ targetStore' = targetStore]_vars

\* DiffStore returned a changeset for two stores that differ and hold rows
\* in all four tables
DiffStoreWritesNothing_Witness ==
    /\ Succeeded
    /\ allDiffs # <<>>
    /\ \A st \in {baseStore, targetStore} :
            st.vulns # {} /\ st.metadata # {} /\ st.identity # <<>> /\ st.exclusions # {}

DiffKeys == {DiffKey(r) : r \in UNION {st.vulns \cup st.metadata : st \in Snapshots}}
PackageNames == {v.PackageName : v \in UNION VulnSnapshots}

RowsOf(st, k, pkg) == {v \in st.vulns : DiffKey(v) = k /\ v.PackageName = pkg}

\* base and target hold the same Vulnerability row for package pkg of key k
SharedUnchanged(k, pkg) ==
    /\ RowsOf(baseStore, k, pkg) # {}
    /\ RowsOf(baseStore, k, pkg) = RowsOf(targetStore, k, pkg)

\* both stores hold metadata for k, and the two records differ in
\* Description and in nothing else
OnlyDescriptionDiffers(k) ==
    \E b \in baseStore.metadata, t \in targetStore.metadata :
        /\ DiffKey(b) = k /\ DiffKey(t) = k
        /\ b.Description # t.Description
        /\ [b EXCEPT !.Description = t.Description] = t

\* apart from the metadata of k the two stores hold the same records
SameApartFrom(k) ==
    /\ baseStore.vulns = targetStore.vulns
    /\ {r \in baseStore.metadata : DiffKey(r) # k}
            = {r \in targetStore.metadata : DiffKey(r) # k}

\* C14: when base and target share an unchanged Vulnerability (X, n, p) and
\* the target's metadata for (X, n) differs from the base's only in
\* Description, the changeset has exactly one entry for (X, n), of Kind
\* Changed, with p among its Packages; it is the only entry when the stores
\* do not differ otherwise.
MetadataDiffNamesPackages ==
    Succeeded =>
        \A k \in DiffKeys, pkg \in PackageNames :
            (SharedUnchanged(k, pkg) /\ OnlyDescriptionDiffers(k)) =>
                /\ Len(EntriesFor(k)) = 1
                /\ EntriesFor(k)[1].Kind = "Changed"
                /\ pkg \in EntriesFor(k)[1].Packages
                /\ SameApartFrom(k) => Len(allDiffs) = 1

\* the stores share (X, n, p) and (Y, n, r) and differ only in the
\* Description of the metadata of (X, n)
MetadataDiffNamesPackages_Witness ==
    /\ Succeeded
    /\ SharedUnchanged(<<"X", "n">>, "p")
    /\ SharedUnchanged(<<"Y", "n">>, "r")
    /\ OnlyDescriptionDiffers(<<"X", "n">>)
    /\ SameApartFrom(<<"X", "n">>)
    /\ Len(allDiffs) = 1
    /\ "p" \in allDiffs[1].Packages

SameRecords ==
    /\ baseStore.vulns = targetStore.vulns
    /\ baseStore.metadata = targetStore.metadata

\* C15: DiffStore between two stores holding the same Vulnerability and
\* VulnerabilityMetadata records returns an empty list and no error.
IdenticalSnapshotsNoDiff ==
    SameRecords =>
        /\ diffErr = "none"
        /\ Returned => allDiffs = <<>>

\* DiffStore returned for two stores that hold the same two Vulnerability
\* keys and the same metadata record
IdenticalSnapshotsNoDiff_Witness ==
    /\ Returned
    /\ SameRecords
    /\ Cardinality(baseStore.vulns) = 3
    /\ baseStore.metadata # {}
    /\ allDiffs = <<>>

--------------------------------------------------------------------------
(* Properties of Close *)

\* what Close issues, in order: the four settings, the reclaim pass, the
\* release of the connection
CloseSteps == memoryEfficientStatements \o <<"VACUUM;", "release">>

\* C17: Close always returns success: whichever of the four settings, the
\* VACUUM or the release of the connection fail, every setting is attempted,
\* in order, then the VACUUM, then the release, and nil is returned.
CloseIsBestEffort ==
    /\ Len(closeLog) <= Len(CloseSteps)
    /\ \A i \in 1..Len(closeLog) : closeLog[i].what = CloseSteps[i]
    /\ closeRet \in {"pending", "none"}
    /\ cpc = "returned" <=> closeRet = "none"
    /\ cpc = "returned" => Len(closeLog) = Len(CloseSteps)
    /\ ~connOpen => cpc = "returned" /\ closeLog[Len(CloseSteps)].fault = "none"

\* Close returned after every setting, the VACUUM and the Close of the
\* connection had failed
CloseIsBestEffort_Witness ==
    /\ cpc = "returned"
    /\ closeRet = "none"
    /\ \A i \in 1..5 : closeLog[i].fault = "failed"
    /\ closeLog[6] = Issued("release", "close failed")
    /\ connOpen

==========================================================================
